---- MODULE Spec2Model ----
(***************************************************************************)
(* go-rpmdb: the package projector (getNEVRA, getPackageWithTags), the     *)
(* type-to-value decoder (entryValue) and the listing loops (ListPackages, *)
(* ListPackagesWithTags).                                                  *)
(*                                                                         *)
(* Byte strings are sequences of numbers 0..255.  A Go (value, error) pair *)
(* is a record [pkg, err, panicked]: pkg is <<>> for a nil pointer and     *)
(* <<p>> for a pointer to p, err is <<>> for a nil error and the chain of  *)
(* messages otherwise, panicked is TRUE when the call ended in a run-time  *)
(* panic instead of returning.                                             *)
(***************************************************************************)
EXTENDS Integers, Sequences, FiniteSets, TLC

VARIABLES indexEntries, tagMask, fn, ret, db, pos, pkgList, listRet, pc

vars == <<indexEntries, tagMask, fn, ret, db, pos, pkgList, listRet, pc>>

---------------------------------------------------------------------------
(* Tag identifiers and tag types.                                          *)

HEADER_IMAGE == 61
HEADER_REGIONS == 64
RPMTAG_HEADERIMAGE == HEADER_IMAGE
RPMTAG_HEADERREGIONS == HEADER_REGIONS
RPMTAG_NAME == 1000
RPMTAG_VERSION == 1001
RPMTAG_RELEASE == 1002
RPMTAG_EPOCH == 1003
RPMTAG_SUMMARY == 1004
RPMTAG_BUILDTIME == 1006
RPMTAG_SIZE == 1009
RPMTAG_VENDOR == 1011
RPMTAG_LICENSE == 1014
RPMTAG_ARCH == 1022
RPMTAG_SOURCERPM == 1044

RPM_NULL_TYPE == 0
RPM_CHAR_TYPE == 1
RPM_INT8_TYPE == 2
RPM_INT16_TYPE == 3
RPM_INT32_TYPE == 4
RPM_INT64_TYPE == 5
RPM_STRING_TYPE == 6
RPM_BIN_TYPE == 7
RPM_STRING_ARRAY_TYPE == 8
RPM_I18NSTRING_TYPE == 9

ErrNotSupport == <<"Not support Now">>

---------------------------------------------------------------------------
(* Go values.                                                              *)

NilErr == <<>>
NilPtr == <<>>
Ptr(p) == <<p>>

\* xerrors.New(msg)
ErrNew(msg) == <<msg>>
\* xerrors.Errorf(msg + ": %w", err)
ErrWrap(msg, err) == <<msg>> \o err

\* (pkg, nil), (nil, err) and a run-time panic
Return(p, e) == [pkg |-> p, err |-> e, panicked |-> FALSE]
Panic == [pkg |-> NilPtr, err |-> NilErr, panicked |-> TRUE]

\* make(map[TAG_ID]interface{}) and m[k] = v
EmptyMap == [t \in {} |-> 0]
\* (an assignment that keeps the value a key already has)
MapSetKeepsFirst(m, k, v) ==
  [t \in (DOMAIN m) \cup {k} |-> IF t \in DOMAIN m THEN m[t] ELSE v]
MapSet(m, k, v) == [t \in (DOMAIN m) \cup {k} |-> IF t = k THEN v ELSE m[t]]

\* &PackageInfo{}
PackageInfo0 ==
  [Epoch |-> 0, Name |-> <<>>, Version |-> <<>>, Release |-> <<>>, Arch |-> <<>>,
   SourceRpm |-> <<>>, Size |-> 0, License |-> <<>>, Vendor |-> <<>>]

\* &PackageInfoEx{} with TagsMap = make(map[TAG_ID]interface{})
PackageInfoEx0 ==
  [Epoch |-> 0, Name |-> <<>>, Version |-> <<>>, Release |-> <<>>, Arch |-> <<>>,
   SourceRpm |-> <<>>, Size |-> 0, License |-> <<>>, Vendor |-> <<>>,
   TagsMap |-> EmptyMap]

\* the string "(none)"
NoneLiteral == <<40, 110, 111, 110, 101, 41>>

---------------------------------------------------------------------------
(* Library functions the projector calls.                                  *)

\* bytes.TrimRight(data, "\x00"): drop bytes from the right while they are NUL
RECURSIVE TrimRight(_)
TrimRight(data) ==
  IF Len(data) > 0 /\ data[Len(data)] = 0
  THEN TrimRight(SubSeq(data, 1, Len(data) - 1))
  ELSE data

\* the error binary.Read returns when fewer than `width` bytes are left
ReadErr(data, width) ==
  IF Len(data) = 0 THEN <<"EOF">> ELSE <<"unexpected EOF">>

\* (the four bytes of the LAST number of the data instead of the first)
ReadInt32Last(data) ==
  IF Len(data) < 4
  THEN [ok |-> FALSE, value |-> 0, err |-> ReadErr(data, 4)]
  ELSE LET n == Len(data)
           hi == IF data[n - 3] >= 128 THEN data[n - 3] - 256 ELSE data[n - 3]
       IN [ok |-> TRUE,
           value |-> hi * 16777216 + data[n - 2] * 65536 + data[n - 1] * 256 + data[n],
           err |-> NilErr]

\* (the top bit taken as a sign flag instead of two's complement)
ReadInt32SignMagnitude(data) ==
  IF Len(data) < 4
  THEN [ok |-> FALSE, value |-> 0, err |-> ReadErr(data, 4)]
  ELSE LET low == (data[1] % 128) * 16777216 + data[2] * 65536 + data[3] * 256 + data[4]
       IN [ok |-> TRUE, value |-> IF data[1] >= 128 THEN 0 - low ELSE low, err |-> NilErr]

\* (the same read in little-endian byte order)
ReadInt32LittleEndian(data) ==
  IF Len(data) < 4
  THEN [ok |-> FALSE, value |-> 0, err |-> ReadErr(data, 4)]
  ELSE LET hi == IF data[4] >= 128 THEN data[4] - 256 ELSE data[4]
       IN [ok |-> TRUE,
           value |-> hi * 16777216 + data[3] * 65536 + data[2] * 256 + data[1],
           err |-> NilErr]

\* binary.Read(reader, binary.BigEndian, &v) with v an int32: the first four
\* bytes as a two's-complement number
ReadInt32(data) ==
  IF Len(data) < 4
  THEN [ok |-> FALSE, value |-> 0, err |-> ReadErr(data, 4)]
  ELSE LET hi == IF data[1] >= 128 THEN data[1] - 256 ELSE data[1]
       IN [ok |-> TRUE,
           value |-> hi * 16777216 + data[2] * 65536 + data[3] * 256 + data[4],
           err |-> NilErr]

\* (the same read in little-endian byte order)
ReadUintLittleEndian(data, width) ==
  IF Len(data) < width
  THEN [ok |-> FALSE, value |-> <<>>, err |-> ReadErr(data, width)]
  ELSE [ok |-> TRUE,
        value |-> IF width = 1 THEN <<data[1]>>
                  ELSE [i \in 1..(width \div 2) |->
                          data[width - 2 * i + 2] * 256 + data[width - 2 * i + 1]],
        err |-> NilErr]

\* binary.Read into a byte, uint16, uint32 or uint64: the first `width` bytes,
\* big-endian.  The number is kept as its base-65536 digits, most significant
\* first (one digit for a byte or a uint16, two for a uint32, four for a uint64).
ReadUint(data, width) ==
  IF Len(data) < width
  THEN [ok |-> FALSE, value |-> <<>>, err |-> ReadErr(data, width)]
  ELSE [ok |-> TRUE,
        value |-> IF width = 1 THEN <<data[1]>>
                  ELSE [i \in 1..(width \div 2) |-> data[2 * i - 1] * 256 + data[2 * i]],
        err |-> NilErr]

\* hex.EncodeToString: two lowercase hexadecimal digits per byte
HexDigit(n) == IF n < 10 THEN 48 + n ELSE 87 + n
RECURSIVE EncodeToString(_)
EncodeToString(src) ==
  IF src = <<>> THEN <<>>
  ELSE <<HexDigit(src[1] \div 16), HexDigit(src[1] % 16)>> \o EncodeToString(Tail(src))

\* bytes.Index(s, "\x00"): position of the first NUL (1-based), 0 when there is none
IndexNul(s) ==
  IF \E i \in 1..Len(s) : s[i] = 0
  THEN CHOOSE i \in 1..Len(s) : s[i] = 0 /\ \A j \in 1..(i - 1) : s[j] # 0
  ELSE 0

\* bytes.SplitN(s, "\x00", n) for n >= 0: nil for n = 0, otherwise at most n
\* pieces, the last one being the unsplit remainder
RECURSIVE SplitN(_, _)
SplitN(s, n) ==
  IF n = 0 THEN <<>>
  ELSE IF n = 1 \/ IndexNul(s) = 0 THEN <<s>>
  ELSE <<SubSeq(s, 1, IndexNul(s) - 1)>> \o SplitN(SubSeq(s, IndexNul(s) + 1, Len(s)), n - 1)

---------------------------------------------------------------------------
(* An index entry is [Info |-> [Tag, Type, Count], Data, Spare]: Data is   *)
(* the slice's bytes (its length), Spare the bytes of its backing array    *)
(* between its length and its capacity.                                    *)

IndexEntry(tag, type, count, data, spare) ==
  [Info |-> [Tag |-> tag, Type |-> type, Count |-> count], Data |-> data, Spare |-> spare]

\* the dynamic values entryValue yields
ValUint(kind, digits) == [kind |-> kind, num |-> digits, str |-> <<>>, strs |-> <<>>]
ValString(s) == [kind |-> "string", num |-> <<>>, str |-> s, strs |-> <<>>]
ValStrings(ss) == [kind |-> "[]string", num |-> <<>>, str |-> <<>>, strs |-> ss]

ValueOk(v) == [val |-> <<v>>, err |-> NilErr, panicked |-> FALSE]
ValueErr(e) == [val |-> <<>>, err |-> e, panicked |-> FALSE]
ValuePanic == [val |-> <<>>, err |-> NilErr, panicked |-> TRUE]

\* (the pieces returned as they are, without padding to count)
StringArrayUnpadded(count, subStrings) == subStrings

\* values[i] = string(subStrings[i]) for i < len(values) && i < len(subStrings)
StringArray(count, subStrings) ==
  [i \in 1..count |-> IF i <= Len(subStrings) THEN subStrings[i] ELSE <<>>]

\* the one-number decoders of entryValue
EntryUint(kind, data, width) ==
  LET r == ReadUint(data, width)
  IN IF ~r.ok THEN ValueErr(ErrWrap("failed to read binary byte", r.err))
     ELSE ValueOk(ValUint(kind, r.value))

entryValue(entry) ==
  LET type == entry.Info.Type
      tag == entry.Info.Tag
      count == entry.Info.Count
      data == entry.Data
  IN CASE type = RPM_NULL_TYPE -> ValueErr(ErrNotSupport)
       [] type \in {RPM_CHAR_TYPE, RPM_INT8_TYPE} ->
            \* two reads into the same byte: the second overwrites the first
            LET first == ReadUint(data, 1)
                second == ReadUint(Tail(data), 1)
            IN IF ~first.ok
               THEN ValueErr(ErrWrap("failed to read binary byte", first.err))
               ELSE IF ~second.ok
               THEN ValueErr(ErrWrap("failed to read binary byte", second.err))
               ELSE ValueOk(ValUint("uint8", second.value))
       [] type = RPM_INT16_TYPE -> EntryUint("uint16", data, 2)
       [] type = RPM_INT32_TYPE -> EntryUint("uint32", data, 4)
       [] type = RPM_INT64_TYPE -> EntryUint("uint64", data, 8)
       [] type = RPM_STRING_TYPE -> ValueOk(ValString(TrimRight(data)))
       [] type = RPM_BIN_TYPE ->
            IF tag >= RPMTAG_HEADERIMAGE /\ tag < RPMTAG_HEADERREGIONS
            THEN ValueErr(ErrNotSupport)
            ELSE \* entry.Data[:entry.Info.Count] is bounded by the capacity
                 IF count > Len(data) + Len(entry.Spare)
                 THEN ValuePanic
                 ELSE ValueOk(ValString(EncodeToString(SubSeq(data \o entry.Spare, 1, count))))
       [] type \in {RPM_STRING_ARRAY_TYPE, RPM_I18NSTRING_TYPE} ->
            ValueOk(ValStrings(StringArray(count, SplitN(data, count))))
       [] OTHER -> ValueErr(ErrNotSupport)

---------------------------------------------------------------------------
(* The package projector.                                                  *)

\* (no normalization at all)
NormalizeNothing(field) == field
\* if field == "(none)" { field = "" }
Normalize(field) == IF field = NoneLiteral THEN <<>> ELSE field

\* (a default case that rejects the tag)
getNEVRADefaultRejects(pkgInfo, indexEntry) == Return(NilPtr, ErrNew("invalid tag"))
\* getNEVRA's switch has no default: any other tag leaves pkgInfo as it is
getNEVRADefault(pkgInfo, indexEntry) == Return(Ptr(pkgInfo), NilErr)

\* One iteration of the loop of getNEVRA, the switch on indexEntry.Info.Tag:
\* Return(Ptr(p), NilErr) carries the updated pkgInfo into the next iteration,
\* anything else is what getNEVRA returns at once.
getNEVRACase(pkgInfo, indexEntry) ==
  LET tag == indexEntry.Info.Tag
      type == indexEntry.Info.Type
      data == indexEntry.Data
  IN CASE tag = RPMTAG_NAME ->
            IF type # RPM_STRING_TYPE THEN Return(NilPtr, ErrNew("invalid tag name"))
            ELSE Return(Ptr([pkgInfo EXCEPT !.Name = TrimRight(data)]), NilErr)
       [] tag = RPMTAG_EPOCH ->
            IF type # RPM_INT32_TYPE THEN Return(NilPtr, ErrNew("invalid tag epoch"))
            ELSE IF ~ReadInt32(data).ok
            THEN Return(NilPtr, ErrWrap("failed to read binary (epoch)", ReadInt32(data).err))
            ELSE Return(Ptr([pkgInfo EXCEPT !.Epoch = ReadInt32(data).value]), NilErr)
       [] tag = RPMTAG_VERSION ->
            IF type # RPM_STRING_TYPE THEN Return(NilPtr, ErrNew("invalid tag version"))
            ELSE Return(Ptr([pkgInfo EXCEPT !.Version = TrimRight(data)]), NilErr)
       [] tag = RPMTAG_RELEASE ->
            IF type # RPM_STRING_TYPE THEN Return(NilPtr, ErrNew("invalid tag release"))
            ELSE Return(Ptr([pkgInfo EXCEPT !.Release = TrimRight(data)]), NilErr)
       [] tag = RPMTAG_ARCH ->
            IF type # RPM_STRING_TYPE THEN Return(NilPtr, ErrNew("invalid tag arch"))
            ELSE Return(Ptr([pkgInfo EXCEPT !.Arch = TrimRight(data)]), NilErr)
       [] tag = RPMTAG_SOURCERPM ->
            IF type # RPM_STRING_TYPE THEN Return(NilPtr, ErrNew("invalid tag sourcerpm"))
            ELSE Return(Ptr([pkgInfo EXCEPT !.SourceRpm = Normalize(TrimRight(data))]), NilErr)
       [] tag = RPMTAG_LICENSE ->
            IF type # RPM_STRING_TYPE THEN Return(NilPtr, ErrNew("invalid tag license"))
            ELSE Return(Ptr([pkgInfo EXCEPT !.License = Normalize(TrimRight(data))]), NilErr)
       [] tag = RPMTAG_VENDOR ->
            IF type # RPM_STRING_TYPE THEN Return(NilPtr, ErrNew("invalid tag vendor"))
            ELSE Return(Ptr([pkgInfo EXCEPT !.Vendor = Normalize(TrimRight(data))]), NilErr)
       [] tag = RPMTAG_SIZE ->
            IF type # RPM_INT32_TYPE THEN Return(NilPtr, ErrNew("invalid tag size"))
            ELSE IF ~ReadInt32(data).ok
            THEN Return(NilPtr, ErrWrap("failed to read binary (size)", ReadInt32(data).err))
            ELSE Return(Ptr([pkgInfo EXCEPT !.Size = ReadInt32(data).value]), NilErr)
       [] OTHER -> getNEVRADefault(pkgInfo, indexEntry)

RECURSIVE getNEVRALoop(_, _, _)
getNEVRALoop(indexEntries_, i, pkgInfo) ==
  IF i > Len(indexEntries_) THEN Return(Ptr(pkgInfo), NilErr)
  ELSE LET r == getNEVRACase(pkgInfo, indexEntries_[i])
       IN IF r.panicked \/ r.err # NilErr THEN r
          ELSE getNEVRALoop(indexEntries_, i + 1, r.pkg[1])

\* (a failure returned together with the record built so far)
getNEVRAReturnsBoth(indexEntries_) ==
  LET r == getNEVRALoop(indexEntries_, 1, PackageInfo0)
  IN IF r.err # NilErr THEN Return(Ptr(PackageInfo0), r.err) ELSE r

getNEVRA(indexEntries_) == getNEVRALoop(indexEntries_, 1, PackageInfo0)

\* (the default case without the test of the mask)
getPackageWithTagsDefaultUnmasked(pkgInfo, indexEntry, tagMask_) ==
  LET v == entryValue(indexEntry)
  IN IF v.panicked THEN Panic
     ELSE IF v.err = NilErr
     THEN Return(Ptr([pkgInfo EXCEPT !.TagsMap = MapSet(@, indexEntry.Info.Tag, v.val[1])]), NilErr)
     ELSE Return(Ptr(pkgInfo), NilErr)

\* (the default case returning the decoder's error)
getPackageWithTagsDefaultStrict(pkgInfo, indexEntry, tagMask_) ==
  IF indexEntry.Info.Tag \in tagMask_
  THEN LET v == entryValue(indexEntry)
       IN IF v.panicked THEN Panic
          ELSE IF v.err = NilErr
          THEN Return(Ptr([pkgInfo EXCEPT !.TagsMap = MapSet(@, indexEntry.Info.Tag, v.val[1])]), NilErr)
          ELSE Return(NilPtr, v.err)
  ELSE Return(Ptr(pkgInfo), NilErr)

\* The default case of getPackageWithTags' switch: a tag of the mask is decoded
\* by entryValue and stored when decoding returned no error.
getPackageWithTagsDefault(pkgInfo, indexEntry, tagMask_) ==
  IF indexEntry.Info.Tag \in tagMask_
  THEN LET v == entryValue(indexEntry)
       IN IF v.panicked THEN Panic
          ELSE IF v.err = NilErr
          THEN Return(Ptr([pkgInfo EXCEPT !.TagsMap = MapSet(@, indexEntry.Info.Tag, v.val[1])]), NilErr)
          ELSE Return(Ptr(pkgInfo), NilErr)
  ELSE Return(Ptr(pkgInfo), NilErr)

\* One iteration of the loop of getPackageWithTags.
getPackageWithTagsCase(pkgInfo, indexEntry, tagMask_) ==
  LET tag == indexEntry.Info.Tag
      type == indexEntry.Info.Type
      data == indexEntry.Data
  IN CASE tag = RPMTAG_NAME ->
            IF type # RPM_STRING_TYPE THEN Return(NilPtr, ErrNew("invalid tag name"))
            ELSE Return(Ptr([pkgInfo EXCEPT !.Name = TrimRight(data)]), NilErr)
       [] tag = RPMTAG_EPOCH ->
            IF type # RPM_INT32_TYPE THEN Return(NilPtr, ErrNew("invalid tag epoch"))
            ELSE IF ~ReadInt32(data).ok
            THEN Return(NilPtr, ErrWrap("failed to read binary (epoch)", ReadInt32(data).err))
            ELSE Return(Ptr([pkgInfo EXCEPT !.Epoch = ReadInt32(data).value]), NilErr)
       [] tag = RPMTAG_VERSION ->
            IF type # RPM_STRING_TYPE THEN Return(NilPtr, ErrNew("invalid tag version"))
            ELSE Return(Ptr([pkgInfo EXCEPT !.Version = TrimRight(data)]), NilErr)
       [] tag = RPMTAG_RELEASE ->
            IF type # RPM_STRING_TYPE THEN Return(NilPtr, ErrNew("invalid tag release"))
            ELSE Return(Ptr([pkgInfo EXCEPT !.Release = TrimRight(data)]), NilErr)
       [] tag = RPMTAG_ARCH ->
            IF type # RPM_STRING_TYPE THEN Return(NilPtr, ErrNew("invalid tag arch"))
            ELSE Return(Ptr([pkgInfo EXCEPT !.Arch = TrimRight(data)]), NilErr)
       [] tag = RPMTAG_SOURCERPM ->
            IF type # RPM_STRING_TYPE THEN Return(NilPtr, ErrNew("invalid tag sourcerpm"))
            ELSE Return(Ptr([pkgInfo EXCEPT !.SourceRpm = Normalize(TrimRight(data))]), NilErr)
       [] tag = RPMTAG_LICENSE ->
            IF type # RPM_STRING_TYPE THEN Return(NilPtr, ErrNew("invalid tag license"))
            ELSE Return(Ptr([pkgInfo EXCEPT !.License = Normalize(TrimRight(data))]), NilErr)
       [] tag = RPMTAG_VENDOR ->
            IF type # RPM_STRING_TYPE THEN Return(NilPtr, ErrNew("invalid tag vendor"))
            ELSE Return(Ptr([pkgInfo EXCEPT !.Vendor = Normalize(TrimRight(data))]), NilErr)
       [] tag = RPMTAG_SIZE ->
            IF type # RPM_INT32_TYPE THEN Return(NilPtr, ErrNew("invalid tag size"))
            ELSE IF ~ReadInt32(data).ok
            THEN Return(NilPtr, ErrWrap("failed to read binary (size)", ReadInt32(data).err))
            ELSE Return(Ptr([pkgInfo EXCEPT !.Size = ReadInt32(data).value]), NilErr)
       [] OTHER -> getPackageWithTagsDefault(pkgInfo, indexEntry, tagMask_)

RECURSIVE getPackageWithTagsLoop(_, _, _, _)
getPackageWithTagsLoop(indexEntries_, tagMask_, i, pkgInfo) ==
  IF i > Len(indexEntries_) THEN Return(Ptr(pkgInfo), NilErr)
  ELSE LET r == getPackageWithTagsCase(pkgInfo, indexEntries_[i], tagMask_)
       IN IF r.panicked \/ r.err # NilErr THEN r
          ELSE getPackageWithTagsLoop(indexEntries_, tagMask_, i + 1, r.pkg[1])

getPackageWithTags(indexEntries_, tagMask_) ==
  getPackageWithTagsLoop(indexEntries_, tagMask_, 1, PackageInfoEx0)

---------------------------------------------------------------------------
(* The inputs of the projector: entry lists of at most MaxEntries entries. *)

MaxEntries == 2

NevraTags ==
  {RPMTAG_NAME, RPMTAG_VERSION, RPMTAG_RELEASE, RPMTAG_EPOCH, RPMTAG_SIZE,
   RPMTAG_VENDOR, RPMTAG_LICENSE, RPMTAG_ARCH, RPMTAG_SOURCERPM}
ExtTags == {RPMTAG_SUMMARY, RPMTAG_BUILDTIME}

\* <<type, count, data, spare>> of the entries that carry a NEVRA tag:
\* "a\0", "(none)\0", "\0", "", 258, -2147483647, three bytes only, two BIN bytes
NevraPayloads ==
  {<<RPM_STRING_TYPE, 1, <<97, 0>>, <<>>>>,
   <<RPM_STRING_TYPE, 1, NoneLiteral \o <<0>>, <<>>>>,
   <<RPM_STRING_TYPE, 1, <<0>>, <<>>>>,
   <<RPM_STRING_TYPE, 1, <<>>, <<>>>>,
   <<RPM_INT32_TYPE, 1, <<0, 0, 1, 2>>, <<>>>>,
   <<RPM_INT32_TYPE, 1, <<128, 0, 0, 1>>, <<>>>>,
   <<RPM_INT32_TYPE, 1, <<0, 0, 1>>, <<>>>>,
   <<RPM_BIN_TYPE, 2, <<171, 205>>, <<>>>>}

\* ... and of the entries that carry another tag: "a\0", 258, three bytes only,
\* two BIN bytes, a BIN count beyond the capacity, NULL, a single INT8 byte
ExtPayloads ==
  {<<RPM_STRING_TYPE, 1, <<97, 0>>, <<>>>>,
   <<RPM_INT32_TYPE, 1, <<0, 0, 1, 2>>, <<>>>>,
   <<RPM_INT32_TYPE, 1, <<0, 0, 1>>, <<>>>>,
   <<RPM_BIN_TYPE, 2, <<171, 205>>, <<>>>>,
   <<RPM_BIN_TYPE, 2, <<171>>, <<>>>>,
   <<RPM_NULL_TYPE, 0, <<>>, <<>>>>,
   <<RPM_INT8_TYPE, 1, <<7>>, <<>>>>}

Entries ==
  {IndexEntry(t, p[1], p[2], p[3], p[4]) : t \in NevraTags, p \in NevraPayloads}
  \cup {IndexEntry(t, p[1], p[2], p[3], p[4]) : t \in ExtTags, p \in ExtPayloads}

EntryLists == UNION {[1..n -> Entries] : n \in 0..MaxEntries}

\* the tag sets a caller of getPackageWithTags passes
TagMasks == {{}, {RPMTAG_SUMMARY}, {RPMTAG_NAME, RPMTAG_SUMMARY, RPMTAG_BUILDTIME}}

NoRet == Return(NilPtr, NilErr)

\* a nil slice, and the (list, error) pair the listing functions return
NilList == <<>>
ListReturn(l, e) == [list |-> l, err |-> e]

Init ==
  /\ indexEntries \in EntryLists
  /\ tagMask = {}
  /\ fn = "none"
  /\ ret = NoRet
  /\ db = <<>>
  /\ pos = 0
  /\ pkgList = NilList
  /\ listRet = ListReturn(NilList, NilErr)
  /\ pc = "idle"

\* pkg, err := getNEVRA(indexEntries)
CallGetNEVRA ==
  /\ fn = "none"
  /\ pc = "idle"
  /\ fn' = "getNEVRA"
  /\ ret' = getNEVRA(indexEntries)
  /\ UNCHANGED <<indexEntries, tagMask, db, pos, pkgList, listRet, pc>>

\* pkg, err := getPackageWithTags(indexEntries, tagMask)
CallGetPackageWithTags ==
  /\ fn = "none"
  /\ pc = "idle"
  /\ \E m \in TagMasks :
       /\ tagMask' = m
       /\ ret' = getPackageWithTags(indexEntries, m)
  /\ fn' = "getPackageWithTags"
  /\ UNCHANGED <<indexEntries, db, pos, pkgList, listRet, pc>>

Next == CallGetNEVRA \/ CallGetPackageWithTags

Spec == Init /\ [][Next]_vars

---------------------------------------------------------------------------
(* The projector on one entry: every tag of EntryTags with every type, the *)
(* counts 0..MaxCount, every data of DataPool and one spare byte or none.  *)

MaxCount == 3

\* the first region tag, the last one inside [HEADER_IMAGE, HEADER_REGIONS),
\* HEADER_REGIONS itself, three NEVRA tags and an extended tag
EntryTags ==
  {RPMTAG_HEADERIMAGE, RPMTAG_HEADERREGIONS - 1, RPMTAG_HEADERREGIONS,
   RPMTAG_NAME, RPMTAG_EPOCH, RPMTAG_SIZE, RPMTAG_SUMMARY}

\* the ten tag types and one number that is none of them
EntryTypes == RPM_NULL_TYPE..(RPM_I18NSTRING_TYPE + 1)

DataPool ==
  {<<>>, <<7>>, <<7, 8>>, <<0, 0, 1>>, <<0, 0, 1, 2>>, <<128, 0, 0, 1>>,
   <<255, 254, 253, 252, 0, 0, 0, 1>>, <<0, 0, 1, 2, 9>>,
   <<97, 0>>, <<97, 0, 0>>, <<97, 0, 98>>, <<97, 0, 98, 0>>, <<0, 97, 0>>}

SpareBytes == {<<>>, <<9>>}

SingleEntries ==
  {IndexEntry(t, ty, c, d, sp) :
     t \in EntryTags, ty \in EntryTypes, c \in 0..MaxCount, d \in DataPool, sp \in SpareBytes}

\* nothing requested, or every tag requested
EntryMasks == {{}, EntryTags}

InitEntry ==
  /\ indexEntries \in {<<e>> : e \in SingleEntries}
  /\ tagMask = {}
  /\ fn = "none"
  /\ ret = NoRet
  /\ db = <<>>
  /\ pos = 0
  /\ pkgList = NilList
  /\ listRet = ListReturn(NilList, NilErr)
  /\ pc = "idle"

\* pkg, err := getPackageWithTags(indexEntries, tagMask), the mask from EntryMasks
CallGetPackageWithTagsOfEntry ==
  /\ fn = "none"
  /\ pc = "idle"
  /\ \E m \in EntryMasks :
       /\ tagMask' = m
       /\ ret' = getPackageWithTags(indexEntries, m)
  /\ fn' = "getPackageWithTags"
  /\ UNCHANGED <<indexEntries, db, pos, pkgList, listRet, pc>>

NextEntry == CallGetNEVRA \/ CallGetPackageWithTagsOfEntry

SpecEntry == InitEntry /\ [][NextEntry]_vars

---------------------------------------------------------------------------
(* The listing loops.  db is the sequence of records the reader's channel  *)
(* delivers, pos the number of them received so far.  A record is          *)
(* [Err, Value]; a value blob is [magic, entries], the index entries being *)
(* the ones its index table describes.                                     *)

MaxRecords == 3

HeaderMagic == <<142, 173, 232, 1>>
RegionTags == {61, 62, 63, 64}
RegionTrailer == IndexEntry(63, RPM_BIN_TYPE, 16, [i \in 1..16 |-> 0], <<>>)

\* headerImport(value): the entries of a blob, or an error for a blob with a
\* wrong magic or without a region trailer as its first entry
headerImport(value) ==
  IF value.magic # HeaderMagic
  THEN [entries |-> <<>>, err |-> <<"bad-magic">>]
  ELSE IF \/ Len(value.entries) < 1
          \/ value.entries[1].Info.Type # RPM_BIN_TYPE
          \/ value.entries[1].Info.Count # 16
          \/ value.entries[1].Info.Tag \notin RegionTags
  THEN [entries |-> <<>>, err |-> <<"missing-region-trailer">>]
  ELSE [entries |-> value.entries, err |-> NilErr]

Str(tag, data) == IndexEntry(tag, RPM_STRING_TYPE, 1, data, <<>>)
I32(tag, data) == IndexEntry(tag, RPM_INT32_TYPE, 1, data, <<>>)

\* the blobs of the records: package "a" (epoch 258), package "b" (vendor
\* "(none)", with a summary), a NAME of type INT32, a wrong magic, no trailer
Values ==
  {[magic |-> HeaderMagic,
    entries |-> <<RegionTrailer, Str(RPMTAG_NAME, <<97, 0>>),
                  I32(RPMTAG_EPOCH, <<0, 0, 1, 2>>)>>],
   [magic |-> HeaderMagic,
    entries |-> <<RegionTrailer, Str(RPMTAG_NAME, <<98, 0>>),
                  Str(RPMTAG_VENDOR, NoneLiteral \o <<0>>),
                  Str(RPMTAG_SUMMARY, <<115, 0>>)>>],
   [magic |-> HeaderMagic,
    entries |-> <<RegionTrailer, I32(RPMTAG_NAME, <<0, 0, 1, 2>>)>>],
   [magic |-> <<142, 173, 232, 2>>,
    entries |-> <<RegionTrailer, Str(RPMTAG_NAME, <<97, 0>>)>>],
   [magic |-> HeaderMagic,
    entries |-> <<Str(RPMTAG_NAME, <<97, 0>>)>>]}

NoValue == [magic |-> <<>>, entries |-> <<>>]

Records ==
  {[Err |-> NilErr, Value |-> v] : v \in Values}
  \cup {[Err |-> <<"unexpected-eof">>, Value |-> NoValue]}

RecordSeqs == UNION {[1..n -> Records] : n \in 0..MaxRecords}

\* the ids a caller of ListPackagesWithTags passes
IdLists == {<<>>, <<RPMTAG_SUMMARY>>, <<RPMTAG_NAME, RPMTAG_SUMMARY, RPMTAG_SUMMARY>>}

InitList ==
  /\ db \in RecordSeqs
  /\ pos = 0
  /\ indexEntries = <<>>
  /\ tagMask = {}
  /\ fn = "none"
  /\ ret = NoRet
  /\ pkgList = NilList
  /\ listRet = ListReturn(NilList, NilErr)
  /\ pc = "idle"

\* d.ListPackages(): var pkgList []*PackageInfo
CallListPackages ==
  /\ pc = "idle"
  /\ fn = "none"
  /\ fn' = "ListPackages"
  /\ pkgList' = NilList
  /\ pc' = "loop"
  /\ UNCHANGED <<indexEntries, tagMask, ret, db, pos, listRet>>

\* d.ListPackagesWithTags(ids...): the tag mask is the set of the ids
CallListPackagesWithTags ==
  /\ pc = "idle"
  /\ fn = "none"
  /\ \E ids \in IdLists : tagMask' = {ids[i] : i \in 1..Len(ids)}
  /\ fn' = "ListPackagesWithTags"
  /\ pkgList' = NilList
  /\ pc' = "loop"
  /\ UNCHANGED <<indexEntries, ret, db, pos, listRet>>

\* return nil, err: a failure returns no list, whatever was collected so far
ListFailureKeepsList(pkgList_, err) == ListReturn(pkgList_, err)
ListFailure(pkgList_, err) == ListReturn(NilList, err)

\* pkgList = append(pkgList, pkg)
AppendPkgInFront(pkgList_, pkg) == <<pkg>> \o pkgList_
AppendPkg(pkgList_, pkg) == Append(pkgList_, pkg)

\* (an iteration that skips a failing record and goes on to the next)
ListPackagesIterContinues ==
  /\ pc = "loop"
  /\ fn = "ListPackages"
  /\ pos < Len(db)
  /\ pos' = pos + 1
  /\ LET entry == db[pos + 1]
         imported == headerImport(entry.Value)
         projected == getNEVRA(imported.entries)
     IN IF entry.Err # NilErr \/ imported.err # NilErr
        THEN UNCHANGED <<indexEntries, ret, pkgList, listRet, pc>>
        ELSE /\ indexEntries' = imported.entries
             /\ ret' = projected
             /\ IF projected.panicked
                THEN pc' = "panicked" /\ UNCHANGED <<pkgList, listRet>>
                ELSE IF projected.err # NilErr
                THEN UNCHANGED <<pkgList, listRet, pc>>
                ELSE /\ pkgList' = AppendPkg(pkgList, projected.pkg[1])
                     /\ UNCHANGED <<listRet, pc>>
  /\ UNCHANGED <<tagMask, fn, db>>

\* One iteration of `for entry := range d.db.Read()` in ListPackages: the next
\* record is received, decoded and projected; any failure returns (nil, err).
ListPackagesIter ==
  /\ pc = "loop"
  /\ fn = "ListPackages"
  /\ pos < Len(db)
  /\ pos' = pos + 1
  /\ LET entry == db[pos + 1]
         imported == headerImport(entry.Value)
         projected == getNEVRA(imported.entries)
     IN IF entry.Err # NilErr
        THEN /\ listRet' = ListFailure(pkgList, entry.Err)
             /\ pc' = "done"
             /\ UNCHANGED <<indexEntries, ret, pkgList>>
        ELSE IF imported.err # NilErr
        THEN /\ listRet' = ListFailure(pkgList, ErrWrap("error during importing header", imported.err))
             /\ pc' = "done"
             /\ UNCHANGED <<indexEntries, ret, pkgList>>
        ELSE /\ indexEntries' = imported.entries
             /\ ret' = projected
             /\ IF projected.panicked
                THEN pc' = "panicked" /\ UNCHANGED <<pkgList, listRet>>
                ELSE IF projected.err # NilErr
                THEN /\ listRet' = ListFailure(pkgList, ErrWrap("invalid package info", projected.err))
                     /\ pc' = "done"
                     /\ UNCHANGED pkgList
                ELSE /\ pkgList' = AppendPkg(pkgList, projected.pkg[1])
                     /\ UNCHANGED <<listRet, pc>>
  /\ UNCHANGED <<tagMask, fn, db>>

\* the channel is closed: return pkgList, nil
ListPackagesReturn ==
  /\ pc = "loop"
  /\ fn = "ListPackages"
  /\ pos = Len(db)
  /\ listRet' = ListReturn(pkgList, NilErr)
  /\ pc' = "done"
  /\ UNCHANGED <<indexEntries, tagMask, fn, ret, db, pos, pkgList>>

\* One iteration of the loop of ListPackagesWithTags.
ListPackagesWithTagsIter ==
  /\ pc = "loop"
  /\ fn = "ListPackagesWithTags"
  /\ pos < Len(db)
  /\ pos' = pos + 1
  /\ LET entry == db[pos + 1]
         imported == headerImport(entry.Value)
         projected == getPackageWithTags(imported.entries, tagMask)
     IN IF entry.Err # NilErr
        THEN /\ listRet' = ListFailure(pkgList, entry.Err)
             /\ pc' = "done"
             /\ UNCHANGED <<indexEntries, ret, pkgList>>
        ELSE IF imported.err # NilErr
        THEN /\ listRet' = ListFailure(pkgList, ErrWrap("error during importing header", imported.err))
             /\ pc' = "done"
             /\ UNCHANGED <<indexEntries, ret, pkgList>>
        ELSE /\ indexEntries' = imported.entries
             /\ ret' = projected
             /\ IF projected.panicked
                THEN pc' = "panicked" /\ UNCHANGED <<pkgList, listRet>>
                ELSE IF projected.err # NilErr
                THEN /\ listRet' = ListFailure(pkgList, ErrWrap("invalid package info", projected.err))
                     /\ pc' = "done"
                     /\ UNCHANGED pkgList
                ELSE /\ pkgList' = AppendPkg(pkgList, projected.pkg[1])
                     /\ UNCHANGED <<listRet, pc>>
  /\ UNCHANGED <<tagMask, fn, db>>

\* the channel is closed: return pkgList, nil
ListPackagesWithTagsReturn ==
  /\ pc = "loop"
  /\ fn = "ListPackagesWithTags"
  /\ pos = Len(db)
  /\ listRet' = ListReturn(pkgList, NilErr)
  /\ pc' = "done"
  /\ UNCHANGED <<indexEntries, tagMask, fn, ret, db, pos, pkgList>>

NextList ==
  \/ CallListPackages
  \/ CallListPackagesWithTags
  \/ ListPackagesIter
  \/ ListPackagesReturn
  \/ ListPackagesWithTagsIter
  \/ ListPackagesWithTagsReturn

SpecList == InitList /\ [][NextList]_vars

---------------------------------------------------------------------------
(* Vocabulary of the properties.                                           *)

Called(f) == fn = f /\ pc = "idle"
Succeeded(r) == ~r.panicked /\ r.err = NilErr /\ r.pkg # NilPtr
ReturnedError(r) == ~r.panicked /\ r.err # NilErr /\ r.pkg = NilPtr

IsNevra(e) == e.Info.Tag \in NevraTags
RequiredType(tag) ==
  IF tag \in {RPMTAG_EPOCH, RPMTAG_SIZE} THEN RPM_INT32_TYPE ELSE RPM_STRING_TYPE
TypeMismatch(e) == IsNevra(e) /\ e.Info.Type # RequiredType(e.Info.Tag)

\* every NEVRA entry has its required type, and four bytes when it is an INT32
WellTyped(list) ==
  \A i \in 1..Len(list) :
    IsNevra(list[i]) =>
      /\ list[i].Info.Type = RequiredType(list[i].Info.Tag)
      /\ list[i].Info.Type = RPM_INT32_TYPE => Len(list[i].Data) >= 4

Occurs(list, tag) == \E i \in 1..Len(list) : list[i].Info.Tag = tag
LastWith(list, tag) ==
  CHOOSE i \in 1..Len(list) :
    list[i].Info.Tag = tag /\ \A j \in (i + 1)..Len(list) : list[j].Info.Tag # tag

\* the data without its trailing NULs: the prefix that ends at the last non-NUL byte
Trimmed(data) ==
  LET n == CHOOSE k \in 0..Len(data) :
             /\ \A j \in (k + 1)..Len(data) : data[j] = 0
             /\ k > 0 => data[k] # 0
  IN SubSeq(data, 1, n)

\* the first four bytes as a signed 32-bit big-endian number
Signed32(data) ==
  LET low == (data[1] % 128) * 16777216 + data[2] * 65536 + data[3] * 256 + data[4]
  IN IF data[1] >= 128 THEN low - 2147483647 - 1 ELSE low

StringField(list, tag) ==
  IF Occurs(list, tag) THEN Trimmed(list[LastWith(list, tag)].Data) ELSE <<>>
NormalizedField(list, tag) ==
  IF StringField(list, tag) = NoneLiteral THEN <<>> ELSE StringField(list, tag)
IntField(list, tag) ==
  IF Occurs(list, tag) THEN Signed32(list[LastWith(list, tag)].Data) ELSE 0

\* the nine basic fields of a record
Basic(p) ==
  [Epoch |-> p.Epoch, Name |-> p.Name, Version |-> p.Version, Release |-> p.Release,
   Arch |-> p.Arch, SourceRpm |-> p.SourceRpm, Size |-> p.Size, License |-> p.License,
   Vendor |-> p.Vendor]

---------------------------------------------------------------------------
\* C1 (as stated): on a well-typed list getNEVRA succeeds and every string field,
\* vendor, license and source_rpm included, is the trimmed data of its entry,
\* epoch and size the 32-bit numbers of theirs, absent tags keep the defaults.
C1_AsStated ==
  (Called("getNEVRA") /\ WellTyped(indexEntries)) =>
    ret = Return(Ptr([Epoch |-> IntField(indexEntries, RPMTAG_EPOCH),
                      Name |-> StringField(indexEntries, RPMTAG_NAME),
                      Version |-> StringField(indexEntries, RPMTAG_VERSION),
                      Release |-> StringField(indexEntries, RPMTAG_RELEASE),
                      Arch |-> StringField(indexEntries, RPMTAG_ARCH),
                      SourceRpm |-> StringField(indexEntries, RPMTAG_SOURCERPM),
                      Size |-> IntField(indexEntries, RPMTAG_SIZE),
                      License |-> StringField(indexEntries, RPMTAG_LICENSE),
                      Vendor |-> StringField(indexEntries, RPMTAG_VENDOR)]), NilErr)

\* C1 (amended): as above, except that vendor, license and source_rpm are the
\* trimmed data with the literal "(none)" replaced by the empty string; with
\* several entries of one tag the field is taken from the last of them.
C1_BasicProjection ==
  (Called("getNEVRA") /\ WellTyped(indexEntries)) =>
    ret = Return(Ptr([Epoch |-> IntField(indexEntries, RPMTAG_EPOCH),
                      Name |-> StringField(indexEntries, RPMTAG_NAME),
                      Version |-> StringField(indexEntries, RPMTAG_VERSION),
                      Release |-> StringField(indexEntries, RPMTAG_RELEASE),
                      Arch |-> StringField(indexEntries, RPMTAG_ARCH),
                      SourceRpm |-> NormalizedField(indexEntries, RPMTAG_SOURCERPM),
                      Size |-> IntField(indexEntries, RPMTAG_SIZE),
                      License |-> NormalizedField(indexEntries, RPMTAG_LICENSE),
                      Vendor |-> NormalizedField(indexEntries, RPMTAG_VENDOR)]), NilErr)

\* a well-typed list with a name that is trimmed and a negative epoch
C1_Witness ==
  /\ Called("getNEVRA")
  /\ WellTyped(indexEntries)
  /\ Occurs(indexEntries, RPMTAG_NAME)
  /\ Occurs(indexEntries, RPMTAG_EPOCH)
  /\ Succeeded(ret)
  /\ ret.pkg[1].Name = <<97>>
  /\ ret.pkg[1].Epoch < 0

---------------------------------------------------------------------------
\* C2 (as stated): when some entry of the list carries a NEVRA tag with another
\* type than the required one, getNEVRA and getPackageWithTags both return an
\* error and no record, wherever that entry stands and whatever the others are.
C2_MismatchFails ==
  ((Called("getNEVRA") \/ Called("getPackageWithTags"))
     /\ \E i \in 1..Len(indexEntries) : TypeMismatch(indexEntries[i]))
  => ReturnedError(ret)

---------------------------------------------------------------------------
FieldOf(p, tag) ==
  CASE tag = RPMTAG_SOURCERPM -> p.SourceRpm
    [] tag = RPMTAG_LICENSE -> p.License
    [] tag = RPMTAG_VENDOR -> p.Vendor

\* C3: in a returned record each of source_rpm, license and vendor is empty
\* exactly when the trimmed data of its entry is "(none)" or empty, and is the
\* trimmed data itself whenever that is not "(none)".
C3_Normalization ==
  ((Called("getNEVRA") \/ Called("getPackageWithTags")) /\ Succeeded(ret)) =>
    \A tag \in {RPMTAG_SOURCERPM, RPMTAG_LICENSE, RPMTAG_VENDOR} :
      Occurs(indexEntries, tag) =>
        LET t == StringField(indexEntries, tag)
            f == FieldOf(ret.pkg[1], tag)
        IN /\ (f = <<>>) <=> (t = NoneLiteral \/ t = <<>>)
           /\ t # NoneLiteral => f = t

\* a "(none)" vendor projected as the empty string next to a license kept as it is
C3_Witness ==
  /\ Called("getPackageWithTags")
  /\ Succeeded(ret)
  /\ Occurs(indexEntries, RPMTAG_VENDOR)
  /\ StringField(indexEntries, RPMTAG_VENDOR) = NoneLiteral
  /\ ret.pkg[1].Vendor = <<>>
  /\ Occurs(indexEntries, RPMTAG_LICENSE)
  /\ ret.pkg[1].License = <<97>>

---------------------------------------------------------------------------
\* C4: getNEVRA returns on a list what it returns on the list without its
\* entries of other tags: the same record, or the same failure.
C4_OtherTagsIgnored ==
  Called("getNEVRA") => ret = getNEVRA(SelectSeq(indexEntries, IsNevra))

\* an entry of another tag in front of a NEVRA entry that sets a field
C4_Witness ==
  /\ Called("getNEVRA")
  /\ Len(indexEntries) = 2
  /\ ~IsNevra(indexEntries[1])
  /\ IsNevra(indexEntries[2])
  /\ Succeeded(ret)
  /\ ret.pkg[1] # PackageInfo0

---------------------------------------------------------------------------
\* C5 (as stated): getPackageWithTags fails exactly when getNEVRA fails on the
\* same list, and when both return a record the nine basic fields are equal.
C5_ExtendsBasic ==
  Called("getPackageWithTags") =>
    LET basic == getNEVRA(indexEntries)
    IN /\ ~Succeeded(ret) <=> ~Succeeded(basic)
       /\ (Succeeded(ret) /\ Succeeded(basic)) => Basic(ret.pkg[1]) = basic.pkg[1]

---------------------------------------------------------------------------
Decodes(e) == ~entryValue(e).panicked /\ entryValue(e).err = NilErr
DecodeFails(e) == ~entryValue(e).panicked /\ entryValue(e).err # NilErr

\* C6: after a successful getPackageWithTags the keys of TagsMap are the
\* requested tags that are no NEVRA tag and that some entry of the list carries
\* with a value entryValue decodes.
C6_TagsMapKeys ==
  (Called("getPackageWithTags") /\ Succeeded(ret)) =>
    DOMAIN ret.pkg[1].TagsMap =
      {t \in tagMask \ NevraTags :
         \E i \in 1..Len(indexEntries) :
           indexEntries[i].Info.Tag = t /\ Decodes(indexEntries[i])}

\* NAME is requested and present, yet the decoded SUMMARY is the only key
C6_Witness ==
  /\ Called("getPackageWithTags")
  /\ Succeeded(ret)
  /\ RPMTAG_NAME \in tagMask
  /\ Occurs(indexEntries, RPMTAG_NAME)
  /\ Occurs(indexEntries, RPMTAG_SUMMARY)
  /\ DOMAIN ret.pkg[1].TagsMap = {RPMTAG_SUMMARY}

---------------------------------------------------------------------------
Without(list, i) == SubSeq(list, 1, i - 1) \o SubSeq(list, i + 1, Len(list))

\* C7: an entry of a requested extended tag for which entryValue returns an
\* error changes nothing: getPackageWithTags returns what it returns on the list
\* without that entry (so it succeeds whenever the rest of the list does, with
\* the same basic fields and the same TagsMap).
C7_DecodeFailureSkipped ==
  Called("getPackageWithTags") =>
    \A i \in 1..Len(indexEntries) :
      (/\ ~IsNevra(indexEntries[i])
       /\ indexEntries[i].Info.Tag \in tagMask
       /\ DecodeFails(indexEntries[i]))
      => ret = getPackageWithTags(Without(indexEntries, i), tagMask)

\* a requested tag decoded from the first entry, its second entry failing to decode
C7_Witness ==
  /\ Called("getPackageWithTags")
  /\ Len(indexEntries) = 2
  /\ indexEntries[1].Info.Tag = RPMTAG_SUMMARY
  /\ indexEntries[2].Info.Tag = RPMTAG_SUMMARY
  /\ RPMTAG_SUMMARY \in tagMask
  /\ Decodes(indexEntries[1])
  /\ DecodeFails(indexEntries[2])
  /\ Succeeded(ret)
  /\ RPMTAG_SUMMARY \in DOMAIN ret.pkg[1].TagsMap

---------------------------------------------------------------------------
\* C10: getNEVRA never panics and returns a record or an error, never both and
\* never neither.
C10_BasicTotal ==
  Called("getNEVRA") =>
    /\ ~ret.panicked
    /\ (ret.pkg # NilPtr) # (ret.err # NilErr)

\* an EPOCH entry of type INT32 with fewer than four bytes
C10_Witness ==
  /\ Called("getNEVRA")
  /\ \E i \in 1..Len(indexEntries) :
       /\ indexEntries[i].Info.Tag = RPMTAG_EPOCH
       /\ indexEntries[i].Info.Type = RPM_INT32_TYPE
       /\ Len(indexEntries[i].Data) < 4
  /\ \E i \in 1..Len(indexEntries) :
       /\ indexEntries[i].Info.Type = RPM_STRING_TYPE
       /\ indexEntries[i].Data = <<>>
  /\ ReturnedError(ret)

---------------------------------------------------------------------------
Projection(entries) ==
  IF fn = "ListPackages" THEN getNEVRA(entries) ELSE getPackageWithTags(entries, tagMask)

\* the record carries a read error, or its value fails header decoding, or its
\* entries fail projection
RecordFails(r) ==
  \/ r.Err # NilErr
  \/ headerImport(r.Value).err # NilErr
  \/ ~Succeeded(Projection(headerImport(r.Value).entries))

\* C8: ListPackages and ListPackagesWithTags return an error exactly when some
\* record of the sequence fails, and then the returned list is nil.
C8_ListingAborts ==
  pc = "done" =>
    /\ (listRet.err # NilErr) <=> (\E i \in 1..Len(db) : RecordFails(db[i]))
    /\ listRet.err # NilErr => listRet.list = NilList

\* a failure after a package had already been collected
C8_Witness ==
  /\ pc = "done"
  /\ pkgList # NilList
  /\ listRet.err # NilErr
  /\ listRet.list = NilList

---------------------------------------------------------------------------
\* C9: when no record fails, ListPackages returns one package per record, the
\* i-th being the projection of the decoded value of the i-th record.
C9_OnePackagePerRecord ==
  (pc = "done" /\ fn = "ListPackages" /\ \A i \in 1..Len(db) : ~RecordFails(db[i])) =>
    listRet = ListReturn([i \in 1..Len(db) |-> getNEVRA(headerImport(db[i].Value).entries).pkg[1]],
                         NilErr)

\* three records, the first two of different packages
C9_Witness ==
  /\ pc = "done"
  /\ fn = "ListPackages"
  /\ Len(db) = MaxRecords
  /\ \A i \in 1..Len(db) : ~RecordFails(db[i])
  /\ db[1] # db[2]
  /\ Len(listRet.list) = MaxRecords
  /\ listRet.list[1] # listRet.list[2]

---------------------------------------------------------------------------
(* Vocabulary of the properties about one entry.                           *)

TheEntry == indexEntries[1]

\* getPackageWithTags was called on the single entry, whose tag is requested
\* and is no NEVRA tag, so that the entry went through entryValue
DecodedEntry(types) ==
  /\ Called("getPackageWithTags")
  /\ Len(indexEntries) = 1
  /\ ~IsNevra(TheEntry)
  /\ TheEntry.Info.Tag \in tagMask
  /\ TheEntry.Info.Type \in types

InTagsMap == TheEntry.Info.Tag \in DOMAIN ret.pkg[1].TagsMap
TagValue == ret.pkg[1].TagsMap[TheEntry.Info.Tag]

NulCount(data) == Cardinality({p \in 1..Len(data) : data[p] = 0})
\* the position of the i-th NUL of data, 0 for i = 0
NthNul(data, i) ==
  IF i = 0 THEN 0
  ELSE CHOOSE p \in 1..Len(data) :
         data[p] = 0 /\ Cardinality({q \in 1..p : data[q] = 0}) = i
HasNul(str) == \E p \in 1..Len(str) : str[p] = 0

---------------------------------------------------------------------------
\* C11: a STRING_ARRAY or I18NSTRING entry of count c decodes to a list of
\* exactly c strings (the empty list for c = 0), and the elements beyond the
\* NUL-separated pieces of the data are empty strings.
C11_ArrayLength ==
  DecodedEntry({RPM_STRING_ARRAY_TYPE, RPM_I18NSTRING_TYPE}) =>
    /\ Succeeded(ret)
    /\ InTagsMap
    /\ TagValue.kind = "[]string"
    /\ Len(TagValue.strs) = TheEntry.Info.Count
    /\ \A i \in 1..TheEntry.Info.Count :
         i > NulCount(TheEntry.Data) + 1 => TagValue.strs[i] = <<>>

\* count 3 on data with two pieces: the third string is the padding
C11_Witness ==
  /\ DecodedEntry({RPM_STRING_ARRAY_TYPE})
  /\ TheEntry.Info.Count = 3
  /\ TheEntry.Data = <<97, 0, 98>>
  /\ Succeeded(ret)
  /\ TagValue.strs = <<<<97>>, <<98>>, <<>>>>

---------------------------------------------------------------------------
\* the data is exactly count NUL-terminated sequences
TerminatedSequences(e) ==
  /\ NulCount(e.Data) = e.Info.Count
  /\ e.Info.Count > 0 => e.Data[Len(e.Data)] = 0
  /\ e.Info.Count = 0 => e.Data = <<>>

\* C12 (as stated): for a STRING_ARRAY or I18NSTRING entry whose data is count
\* NUL-terminated sequences, the i-th decoded string is the i-th sequence
\* without its NUL, the last one included, and no decoded string holds a NUL.
C12_ArrayElements ==
  (DecodedEntry({RPM_STRING_ARRAY_TYPE, RPM_I18NSTRING_TYPE}) /\ TerminatedSequences(TheEntry)) =>
    /\ Succeeded(ret)
    /\ InTagsMap
    /\ Len(TagValue.strs) = TheEntry.Info.Count
    /\ \A i \in 1..TheEntry.Info.Count :
         /\ TagValue.strs[i] =
              SubSeq(TheEntry.Data, NthNul(TheEntry.Data, i - 1) + 1, NthNul(TheEntry.Data, i) - 1)
         /\ ~HasNul(TagValue.strs[i])

---------------------------------------------------------------------------
\* getNEVRA was called on a single EPOCH or SIZE entry of type INT32 with at
\* least four data bytes
IntEntry ==
  /\ Called("getNEVRA")
  /\ Len(indexEntries) = 1
  /\ TheEntry.Info.Tag \in {RPMTAG_EPOCH, RPMTAG_SIZE}
  /\ TheEntry.Info.Type = RPM_INT32_TYPE
  /\ Len(TheEntry.Data) >= 4

IntResult ==
  IF TheEntry.Info.Tag = RPMTAG_EPOCH THEN ret.pkg[1].Epoch ELSE ret.pkg[1].Size

\* C13: an INT32 EPOCH or SIZE entry is accepted whatever its count, and the
\* result is the one of the entry with count 1 and the first four bytes only.
C13_CountIgnored ==
  IntEntry =>
    /\ Succeeded(ret)
    /\ ret = getNEVRA(<<IndexEntry(TheEntry.Info.Tag, RPM_INT32_TYPE, 1,
                                   SubSeq(TheEntry.Data, 1, 4), <<>>)>>)

\* count 2 on eight bytes: the second number is not looked at
C13_Witness ==
  /\ IntEntry
  /\ TheEntry.Info.Count = 2
  /\ TheEntry.Data = <<255, 254, 253, 252, 0, 0, 0, 1>>
  /\ Succeeded(ret)
  /\ IntResult = Signed32(<<255, 254, 253, 252>>)

---------------------------------------------------------------------------
\* C14: epoch and size lie in [-2^31, 2^31 - 1]; data with the top bit of its
\* first byte set gives the unsigned value minus 2^32, a negative number
\* (stated as result + 2^31 = unsigned value - 2^31), other data the unsigned
\* value itself.
C14_Signed32 ==
  IntEntry =>
    LET d == TheEntry.Data
        low == d[2] * 65536 + d[3] * 256 + d[4]
    IN /\ Succeeded(ret)
       /\ IntResult >= -2147483647 - 1
       /\ IntResult <= 2147483647
       /\ d[1] >= 128 =>
            /\ IntResult < 0
            /\ IntResult + 2147483647 + 1 = (d[1] - 128) * 16777216 + low
       /\ d[1] < 128 => IntResult = d[1] * 16777216 + low

\* 0x80000001 as a size
C14_Witness ==
  /\ IntEntry
  /\ TheEntry.Info.Tag = RPMTAG_SIZE
  /\ TheEntry.Data = <<128, 0, 0, 1>>
  /\ Succeeded(ret)
  /\ ret.pkg[1].Size = -2147483647

---------------------------------------------------------------------------
\* C15 (as stated): a requested CHAR or INT8 entry with at least one data byte
\* decodes to the first byte of its data, which appears in TagsMap; so does an
\* entry with count 1 and exactly one byte.
C15_SingleByteRead ==
  (DecodedEntry({RPM_CHAR_TYPE, RPM_INT8_TYPE}) /\ Len(TheEntry.Data) >= 1) =>
    /\ Succeeded(ret)
    /\ InTagsMap
    /\ TagValue = ValUint("uint8", <<TheEntry.Data[1]>>)

---------------------------------------------------------------------------
\* the characters 0123456789abcdef
HexAlphabet == <<48, 49, 50, 51, 52, 53, 54, 55, 56, 57, 97, 98, 99, 100, 101, 102>>
\* the lowercase hexadecimal string of the first c bytes of data
HexOf(data, c) ==
  [k \in 1..(2 * c) |->
     IF k % 2 = 1 THEN HexAlphabet[(data[(k + 1) \div 2] \div 16) + 1]
     ELSE HexAlphabet[(data[k \div 2] % 16) + 1]]

InRegionRange(tag) == tag >= HEADER_IMAGE /\ tag < HEADER_REGIONS

\* the part of C16 about the tags outside [HEADER_IMAGE, HEADER_REGIONS)
BinHexEncoded ==
  (DecodedEntry({RPM_BIN_TYPE}) /\ TheEntry.Info.Count <= Len(TheEntry.Data)
     /\ ~InRegionRange(TheEntry.Info.Tag)) =>
    /\ Succeeded(ret)
    /\ InTagsMap
    /\ TagValue = ValString(HexOf(TheEntry.Data, TheEntry.Info.Count))

\* C16 (as stated): a requested BIN entry of count c decodes to the lowercase
\* hexadecimal string of its first c bytes when its tag is outside
\* [HEADER_IMAGE, HEADER_REGIONS), tag 64 included, and to a value that is no
\* hexadecimal string (an opaque slice) when its tag is inside.
C16_BinValue ==
  /\ BinHexEncoded
  /\ (DecodedEntry({RPM_BIN_TYPE}) /\ TheEntry.Info.Count <= Len(TheEntry.Data)
        /\ InRegionRange(TheEntry.Info.Tag)) =>
       /\ Succeeded(ret)
       /\ InTagsMap
       /\ TagValue.kind # "string"

---------------------------------------------------------------------------
UpToFirstNul(data) ==
  IF HasNul(data) THEN SubSeq(data, 1, NthNul(data, 1) - 1) ELSE data

\* C17 (as stated): a STRING entry decodes, in TagsMap and in a NEVRA field, to
\* its data up to and not including the first NUL, so that the decoded string
\* never holds a NUL.
C17_UpToFirstNul ==
  /\ DecodedEntry({RPM_STRING_TYPE}) =>
       /\ Succeeded(ret)
       /\ InTagsMap
       /\ TagValue = ValString(UpToFirstNul(TheEntry.Data))
       /\ ~HasNul(TagValue.str)
  /\ (Called("getNEVRA") /\ Len(indexEntries) = 1 /\ TheEntry.Info.Tag = RPMTAG_NAME
        /\ TheEntry.Info.Type = RPM_STRING_TYPE) =>
       /\ Succeeded(ret)
       /\ ret.pkg[1].Name = UpToFirstNul(TheEntry.Data)
       /\ ~HasNul(ret.pkg[1].Name)

---------------------------------------------------------------------------
IntWidth(type) ==
  CASE type = RPM_INT16_TYPE -> 2
    [] type = RPM_INT32_TYPE -> 4
    [] type = RPM_INT64_TYPE -> 8
IntKind(type) ==
  CASE type = RPM_INT16_TYPE -> "uint16"
    [] type = RPM_INT32_TYPE -> "uint32"
    [] type = RPM_INT64_TYPE -> "uint64"

\* C18: a requested INT16, INT32 or INT64 entry decodes to the unsigned
\* big-endian number of its first 2, 4 or 8 bytes, whatever its count and its
\* further bytes: the base-65536 digits of the value, most significant first,
\* are the pairs of bytes in order (so the value is below 2^16, 2^32 or 2^64).
\* With fewer bytes than the width the tag is absent from TagsMap.
C18_UnsignedIntegers ==
  DecodedEntry({RPM_INT16_TYPE, RPM_INT32_TYPE, RPM_INT64_TYPE}) =>
    LET w == IntWidth(TheEntry.Info.Type)
    IN /\ Succeeded(ret)
       /\ Len(TheEntry.Data) < w => ~InTagsMap
       /\ Len(TheEntry.Data) >= w =>
            /\ InTagsMap
            /\ TagValue.kind = IntKind(TheEntry.Info.Type)
            /\ Len(TagValue.num) = w \div 2
            /\ \A i \in 1..(w \div 2) :
                 /\ TagValue.num[i] \in 0..65535
                 /\ TagValue.num[i] \div 256 = TheEntry.Data[2 * i - 1]
                 /\ TagValue.num[i] % 256 = TheEntry.Data[2 * i]

\* 0xfffefdfc00000001 as an INT64 of count 2, and as an INT32 with four bytes to spare
C18_Witness ==
  /\ DecodedEntry({RPM_INT64_TYPE, RPM_INT32_TYPE})
  /\ TheEntry.Info.Count = 2
  /\ TheEntry.Data = <<255, 254, 253, 252, 0, 0, 0, 1>>
  /\ Succeeded(ret)
  /\ InTagsMap
  /\ TagValue.num \in {<<65534, 65020, 0, 1>>, <<65534, 65020>>}
  /\ TheEntry.Info.Type = RPM_INT64_TYPE <=> Len(TagValue.num) = 4

---------------------------------------------------------------------------
\* the packages of the first n records, in sequence order
Collected(n) == [i \in 1..n |-> Projection(headerImport(db[i].Value).entries).pkg[1]]

\* C19: the listing loop stops at the first failure.  While the loop runs, the
\* records received so far (pos of them) have all succeeded and pkgList holds
\* their packages, one each, in sequence order; a listing that ended with an
\* error received the first failing record last, so no later record was
\* received, decoded or projected; a listing that ended without error received
\* every record.
C19_StopsAtFirstFailure ==
  /\ pc = "loop" =>
       /\ \A i \in 1..pos : ~RecordFails(db[i])
       /\ pkgList = Collected(pos)
  /\ (pc = "done" /\ listRet.err # NilErr) =>
       /\ pos \in 1..Len(db)
       /\ RecordFails(db[pos])
       /\ \A i \in 1..(pos - 1) : ~RecordFails(db[i])
       /\ pkgList = Collected(pos - 1)
  /\ (pc = "done" /\ listRet.err = NilErr) =>
       /\ pos = Len(db)
       /\ pkgList = Collected(pos)

\* the second of three records fails after the first was collected; the third,
\* failing too, is never received
C19_Witness ==
  /\ pc = "done"
  /\ listRet.err # NilErr
  /\ Len(db) = 3
  /\ pos = 2
  /\ Len(pkgList) = 1
  /\ RecordFails(db[3])

---------------------------------------------------------------------------
\* C20 (as stated): getPackageWithTags is total: for every entry list and every
\* requested tag set it does not panic and returns either a record or an
\* error, never both and never neither.
C20_ExtendedTotal ==
  Called("getPackageWithTags") =>
    /\ ~ret.panicked
    /\ (ret.pkg # NilPtr) # (ret.err # NilErr)

---------------------------------------------------------------------------
BasicField(p, tag) ==
  CASE tag = RPMTAG_NAME -> p.Name
    [] tag = RPMTAG_VERSION -> p.Version
    [] tag = RPMTAG_RELEASE -> p.Release
    [] tag = RPMTAG_ARCH -> p.Arch
    [] tag = RPMTAG_EPOCH -> p.Epoch
    [] tag = RPMTAG_SIZE -> p.Size
    [] tag \in {RPMTAG_SOURCERPM, RPMTAG_LICENSE, RPMTAG_VENDOR} -> FieldOf(p, tag)

\* what the last entry of the tag says: its number, or its trimmed data,
\* normalized for source_rpm, license and vendor
LastValue(list, tag) ==
  CASE tag \in {RPMTAG_EPOCH, RPMTAG_SIZE} -> IntField(list, tag)
    [] tag \in {RPMTAG_SOURCERPM, RPMTAG_LICENSE, RPMTAG_VENDOR} -> NormalizedField(list, tag)
    [] OTHER -> StringField(list, tag)

\* the last entry of the tag among those that entryValue decodes
LastDecoded(list, tag) ==
  CHOOSE i \in 1..Len(list) :
    /\ list[i].Info.Tag = tag
    /\ Decodes(list[i])
    /\ \A j \in (i + 1)..Len(list) : ~(list[j].Info.Tag = tag /\ Decodes(list[j]))

\* C21: with several entries of one tag the last one wins.  In a returned
\* record each basic field whose tag occurs is the (normalized) value of the
\* last entry of that tag, and each TagsMap value is the value of the last
\* entry of its tag that decoded: a later entry that fails to decode removes
\* nothing.
C21_LastWins ==
  ((Called("getNEVRA") \/ Called("getPackageWithTags")) /\ Succeeded(ret)) =>
    /\ \A tag \in NevraTags :
         Occurs(indexEntries, tag) =>
           BasicField(ret.pkg[1], tag) = LastValue(indexEntries, tag)
    /\ Called("getPackageWithTags") =>
         \A t \in DOMAIN ret.pkg[1].TagsMap :
           ret.pkg[1].TagsMap[t] =
             entryValue(indexEntries[LastDecoded(indexEntries, t)]).val[1]

\* two requested entries of one tag that decode to different values: the
\* second is stored
C21_Witness ==
  /\ Called("getPackageWithTags")
  /\ Succeeded(ret)
  /\ Len(indexEntries) = 2
  /\ indexEntries[1].Info.Tag = indexEntries[2].Info.Tag
  /\ indexEntries[1].Info.Tag \in tagMask \ NevraTags
  /\ Decodes(indexEntries[1])
  /\ Decodes(indexEntries[2])
  /\ entryValue(indexEntries[1]).val # entryValue(indexEntries[2]).val
  /\ ret.pkg[1].TagsMap[indexEntries[1].Info.Tag] = entryValue(indexEntries[2]).val[1]

\* a decoded entry followed by one of the same tag that fails to decode: the
\* value of the first stays
C21_LaterFailureKeeps ==
  /\ Called("getPackageWithTags")
  /\ Succeeded(ret)
  /\ Len(indexEntries) = 2
  /\ indexEntries[1].Info.Tag = indexEntries[2].Info.Tag
  /\ indexEntries[1].Info.Tag \in tagMask \ NevraTags
  /\ Decodes(indexEntries[1])
  /\ DecodeFails(indexEntries[2])
  /\ ret.pkg[1].TagsMap[indexEntries[1].Info.Tag] = entryValue(indexEntries[1]).val[1]

\* two NAME entries with different names: the record has the second
C21_BasicLastWins ==
  /\ Called("getNEVRA")
  /\ Succeeded(ret)
  /\ Len(indexEntries) = 2
  /\ indexEntries[1].Info.Tag = RPMTAG_NAME
  /\ indexEntries[2].Info.Tag = RPMTAG_NAME
  /\ Trimmed(indexEntries[1].Data) # Trimmed(indexEntries[2].Data)
  /\ ret.pkg[1].Name = Trimmed(indexEntries[2].Data)

====
